---- MODULE Spec2Model ----
(***************************************************************************)
(* A model of ugosh's orchestration layer: runAll, run, runPath,           *)
(* runInteractive, concErrors and main, in the two builds the repository   *)
(* holds (src/main.go and src/unnamed/part_000).  The shell parser and the *)
(* interpreter (mvdan.cc/sh) are modelled by what the host observes of     *)
(* them: parse success or failure, Reset, Run, Exited, Incomplete.         *)
(***************************************************************************)
EXTENDS Integers, Sequences, FiniteSets, TLC

\* ------------------------------------------------------------------ bounds
MaxArgs == 2
MaxConc == 2
MaxLines == 2

\* ------------------------------------------------------------- environment
\* The two builds of package main.
Builds == {"main.go", "part_000"}

\* The file system: the paths a command line may name.  "echoset" prints $X
\* and then assigns it, "exit3" asks for exit status 3, "bad" holds an
\* unterminated quote, "missing" does not exist.
Paths == {"echoset", "exit3", "bad", "missing"}

\* A source text is a sequence of tokens; outside quotes every token is one
\* simple statement (tokens are separated by ';'), a token holding a quote
\* opens or closes a quoted word.
QuoteTokens == {"echo 'a", "b'"}

FileContent ==
  [p \in Paths \ {"missing"} |->
     CASE p = "echoset" -> <<"echo $X", "X=1">>
       [] p = "exit3"   -> <<"exit 3">>
       [] p = "bad"     -> <<"echo 'a">>]

\* What -c may carry, and what a non-terminal stdin may hold.
Commands == {<<>>, <<"exit 7">>, <<"X=1">>}
StdinScripts == {<<"X=1">>, <<"exit 3">>, <<"echo 'a">>}

\* The lines a terminal may deliver to the interactive loop.
Lines ==
  { <<"X=1">>, <<"echo $X">>, <<"false", "echo 'a">>, <<"b'">>,
    <<"exit 3", "X=1">>, <<>> }

ExitCodeOf == [t \in {"exit 3", "exit 7", "false"} |->
                 CASE t = "exit 3" -> 3 [] t = "exit 7" -> 7 [] t = "false" -> 1]

\* ------------------------------------------------------------------ errors
\* An error value: nil, interp.ExitStatus, or an ordinary error.  text is
\* Error(): a string kept as a sequence of chunks so that a newline is
\* countable.
Nil == [type |-> "nil", code |-> 0, text |-> <<>>]
ExitText == [n \in {ExitCodeOf[t] : t \in DOMAIN ExitCodeOf} |->
               CASE n = 1 -> "exit status 1" [] n = 3 -> "exit status 3" [] n = 7 -> "exit status 7"]
ExitStatus(n) == [type |-> "ExitStatus", code |-> n, text |-> <<ExitText[n]>>]
PathError(p) == [type |-> "PathError", code |-> 0, text |-> <<"open", p, "no such file">>]
ParseError(name) == [type |-> "ParseError", code |-> 0,
                     text |-> <<name, "reached EOF without closing quote">>]
NewError == [type |-> "NewError", code |-> 0, text |-> <<"could not get current dir">>]
ReadError == [type |-> "ReadError", code |-> 0, text |-> <<"read /dev/stdin: input/output error">>]
ErrorsNew(t) == [type |-> "errorString", code |-> 0, text |-> t]

\* ------------------------------------------------------------------ parser
\* The lexer state: the statements completed so far, and the tokens of the
\* statement still open (inside a quote).
LexInit == [stmts |-> <<>>, partial |-> <<>>]

LexTok(s, t) ==
  IF t \in QuoteTokens
    THEN IF s.partial = <<>>
           THEN [s EXCEPT !.partial = <<t>>]
           ELSE [stmts |-> Append(s.stmts, Append(s.partial, t)), partial |-> <<>>]
    ELSE IF s.partial # <<>>
           THEN [s EXCEPT !.partial = Append(@, t)]
           ELSE [s EXCEPT !.stmts = Append(@, <<t>>)]

RECURSIVE Lex(_, _)
Lex(s, toks) == IF toks = <<>> THEN s ELSE Lex(LexTok(s, Head(toks)), Tail(toks))

\* syntax.NewParser().Parse(reader, name): the whole text, or a parse error.
Parse(text, name) ==
  LET s == Lex(LexInit, text)
  IN IF s.partial # <<>>
       THEN [err |-> ParseError(name), prog |-> <<>>]
       ELSE [err |-> Nil, prog |-> s.stmts]

\* ------------------------------------------------------------- interpreter
\* interp.New: a runner that was never reset.
NewRunner == [X |-> "", exit |-> 0, exited |-> FALSE, didReset |-> FALSE]

\* Runner.Reset: back to the initial state, variables cleared.
Reset(r) == [X |-> "", exit |-> 0, exited |-> FALSE, didReset |-> TRUE]

\* One statement on runner r: the runner after it and what it printed (each
\* print a sequence of words).
ExecStmt(r, stmt) ==
  LET t == Head(stmt)
  IN CASE t = "X=1"     -> [r |-> [r EXCEPT !.X = "1", !.exit = 0], out |-> <<>>]
       [] t = "echo $X" -> [r |-> [r EXCEPT !.exit = 0], out |-> <<(<<r.X>>)>>]
       [] t \in DOMAIN ExitCodeOf /\ t # "false" ->
            [r |-> [r EXCEPT !.exit = ExitCodeOf[t], !.exited = TRUE], out |-> <<>>]
       [] t = "false"   -> [r |-> [r EXCEPT !.exit = ExitCodeOf[t]], out |-> <<>>]
       [] OTHER         -> [r |-> [r EXCEPT !.exit = 0], out |-> <<stmt>>]

RECURSIVE ExecStmts(_, _, _)
ExecStmts(r, stmts, out) ==
  IF stmts = <<>> \/ r.exited
    THEN [r |-> r, out |-> out]
    ELSE LET e == ExecStmt(r, Head(stmts))
         IN ExecStmts(e.r, Tail(stmts), out \o e.out)

\* Runner.Run(ctx, node): resets a runner never reset, clears the exited
\* flag, runs the node, and reports a non-zero exit as an ExitStatus.
RunNode(r, stmts) ==
  LET r0 == IF r.didReset THEN r ELSE Reset(r)
      e  == ExecStmts([r0 EXCEPT !.exited = FALSE], stmts, <<>>)
  IN [r |-> e.r, out |-> e.out,
      err |-> IF e.r.exit # 0 THEN ExitStatus(e.r.exit) ELSE Nil]

\* ------------------------------------------------------------ the session
\* run without its r.Reset().
run_NoReset(r, text, name) ==
  LET p == Parse(text, name)
  IN IF p.err # Nil
       THEN [r |-> r, err |-> p.err, out |-> <<>>, evs |-> {"parse"}]
       ELSE LET x == RunNode(r, p.prog)
            IN [r |-> x.r, err |-> x.err, out |-> x.out,
                evs |-> {"parse", "reset", "run"}]

\* run with r.Reset() moved above the parse.
run_ResetFirst(r, text, name) ==
  LET p == Parse(text, name)
  IN IF p.err # Nil
       THEN [r |-> Reset(r), err |-> p.err, out |-> <<>>, evs |-> {"reset", "parse"}]
       ELSE LET x == RunNode(Reset(r), p.prog)
            IN [r |-> x.r, err |-> x.err, out |-> x.out,
                evs |-> {"parse", "reset", "run"}]

\* run(r, reader, name): parse; on a parse error return it and touch nothing;
\* otherwise Reset, then Run.  evs names the steps taken.
run(r, text, name) ==
  LET p == Parse(text, name)
  IN IF p.err # Nil
       THEN [r |-> r, err |-> p.err, out |-> <<>>, evs |-> {"parse"}]
       ELSE LET x == RunNode(Reset(r), p.prog)
            IN [r |-> x.r, err |-> x.err, out |-> x.out,
                evs |-> {"parse", "reset", "run"}]

\* runPath(r, path): open the file, then run it under its own name.
runPath(r, path) ==
  IF path \notin DOMAIN FileContent
    THEN [r |-> r, err |-> PathError(path), out |-> <<>>, evs |-> {"open"}]
    ELSE LET x == run(r, FileContent[path], path)
         IN [x EXCEPT !.evs = @ \cup {"open"}]

\* ------------------------------------------------------------- concErrors
RECURSIVE HasError(_)
HasError(e) ==
  IF e = <<>> THEN FALSE
  ELSE IF Head(e) # Nil THEN TRUE ELSE HasError(Tail(e))

Add(e, err) == Append(e, err)

\* GetError with a loop that stops at the first failure, as HasError's does.
RECURSIVE Builder_Break(_)
Builder_Break(e) ==
  IF e = <<>> THEN <<>>
  ELSE IF Head(e) # Nil
         THEN Head(e).text \o <<"\n">>
         ELSE Builder_Break(Tail(e))

\* The text the strings.Builder holds after the loop of GetError.
RECURSIVE Builder(_)
Builder(e) ==
  IF e = <<>> THEN <<>>
  ELSE IF Head(e) # Nil
         THEN (Head(e).text \o <<"\n">>) \o Builder(Tail(e))
         ELSE Builder(Tail(e))

GetError(e) ==
  IF \E n \in 1..Len(e) : e[n] # Nil THEN ErrorsNew(Builder(e)) ELSE Nil

\* ------------------------------------------------------------------- state
VARIABLES
  build,     \* which of the two builds runs
  command,   \* *command, the value of -c
  flags,     \* the flags set on the command line (flag.NFlag counts them)
  args,      \* flag.Args()
  concArgs,  \* concArgs (main.go), asyncArgs (part_000)
  pc,        \* where the main goroutine is
  err,       \* what runAll returned
  i,         \* the index of the next positional script
  j,         \* the index of the next unit to launch
  k,         \* the index of the next receive
  errs,      \* the concErrors of runAll (main.go)
  errChan,   \* the buffered channel
  runners,   \* the interp.Runners: 0 is seqRunner / r, u is unit u's concRunner
  g,         \* the launched goroutines
  parser,    \* runInteractive's parser: accumulated statements, open statement
  nread,     \* lines read by parser.Interactive
  bi,        \* the index of the next statement of the batch in fn
  runErr,    \* runInteractive's runErr
  ran,       \* history: the statements fn has run, in order
  fed,       \* history: the lines parser.Interactive has read
  stdout,    \* what was written to standard output, and by whom
  stderr,    \* what main wrote to standard error
  exit,      \* the process's exit status
  hist       \* history: which script was opened, parsed, reset, run

vars == <<build, command, flags, args, concArgs, pc, err, i, j, k, errs,
          errChan, runners, g, parser, nread, bi, runErr, ran, fed,
          stdout, stderr, exit, hist>>

config == <<build, command, flags, args, concArgs>>
inter == <<parser, nread, bi, runErr, ran, fed>>

RECURSIVE SeqsUpTo(_, _)
SeqsUpTo(S, n) ==
  IF n = 0 THEN {<<>>}
  ELSE LET shorter == SeqsUpTo(S, n - 1)
       IN shorter \cup {Append(q, x) : q \in shorter, x \in S}

NArg == Len(args)
NFlag == Cardinality(flags)
Units == 1..Len(concArgs)

Idle == [pc |-> "idle", rid |-> 0, prog |-> <<>>, res |-> Nil]

\* After flag.Parse: -a leaves at least one path in concArgs in both builds
\* (strings.Split and append never yield an empty list), and *command is
\* empty unless -c was given.  A -c with an empty value is drawn only with
\* no positional argument: flag.NFlag() is read in no other case.
Init ==
  /\ build \in Builds
  /\ args \in SeqsUpTo(Paths, MaxArgs)
  /\ concArgs \in SeqsUpTo(Paths, MaxConc)
  /\ flags \in SUBSET {"c", "a"}
  /\ ("a" \in flags) <=> (concArgs # <<>>)
  /\ command \in Commands
  /\ ("c" \notin flags) => (command = <<>>)
  /\ ("c" \in flags /\ command = <<>>) => (args = <<>>)
  /\ pc = "runAll"
  /\ err = Nil
  /\ i = 1 /\ j = 1 /\ k = 1
  /\ errs = <<>>
  /\ errChan = <<>>
  /\ runners = <<>>
  /\ g = [u \in Units |-> Idle]
  /\ parser = LexInit
  /\ nread = 0
  /\ bi = 1
  /\ runErr = Nil
  /\ ran = <<>>
  /\ fed = <<>>
  /\ stdout = <<>>
  /\ stderr = <<>>
  /\ exit = [done |-> FALSE, code |-> 0]
  /\ hist = {}

Events(who, idx, evs) == {[who |-> who, idx |-> idx, ev |-> e] : e \in evs}
Printed(who, idx, out) == [n \in 1..Len(out) |-> [who |-> who, idx |-> idx, text |-> out[n]]]

\* Where runAll stands once positional script i-1 and unit j-1 are behind it.
LoopPc(ii, jj) ==
  IF ii <= Len(args) THEN "seq"
  ELSE IF jj <= Len(concArgs) THEN "launch" ELSE "collect"

\* ------------------------------------------------------------------ runAll
\* Whether runAll takes the branch that reads standard input.
StdinMode ==
  IF build = "main.go" THEN NArg = 0 /\ NFlag = 0 ELSE NArg = 0

\* interp.New for the sequential session fails: runAll returns the error.
RunAllNewFails ==
  /\ pc = "runAll"
  /\ err' = NewError
  /\ pc' = "main"
  /\ UNCHANGED <<config, i, j, k, errs, errChan, runners, g, inter, stdout,
                 stderr, exit, hist>>

\* The -c branch without its return: runAll goes on to the loops.
RunAllCommand_FallsThrough ==
  /\ pc = "runAll"
  /\ command # <<>>
  /\ LET x == run(NewRunner, command, "")
     IN /\ runners' = (0 :> x.r)
        /\ err' = x.err
        /\ stdout' = stdout \o Printed("cmd", 0, x.out)
        /\ hist' = hist \cup Events("cmd", 0, x.evs)
  /\ pc' = LoopPc(i, j)
  /\ UNCHANGED <<config, i, j, k, errs, errChan, g, inter, stderr, exit>>

\* A non-empty -c: run it on the sequential session and return.
RunAllCommand ==
  /\ pc = "runAll"
  /\ command # <<>>
  /\ LET x == run(NewRunner, command, "")
     IN /\ runners' = (0 :> x.r)
        /\ err' = x.err
        /\ stdout' = stdout \o Printed("cmd", 0, x.out)
        /\ hist' = hist \cup Events("cmd", 0, x.evs)
  /\ pc' = "main"
  /\ UNCHANGED <<config, i, j, k, errs, errChan, g, inter, stderr, exit>>

\* Standard input is a terminal: enter runInteractive, which writes the
\* first prompt before it reads.
RunAllInteractive ==
  /\ pc = "runAll"
  /\ command = <<>>
  /\ StdinMode
  /\ runners' = (0 :> NewRunner)
  /\ parser' = LexInit
  /\ runErr' = Nil
  /\ stdout' = Append(stdout, [who |-> "prompt", idx |-> 0, text |-> <<"$ ">>])
  /\ hist' = hist \cup Events("interactive", 0, {"enter"})
  /\ pc' = "read"
  /\ UNCHANGED <<config, err, i, j, k, errs, errChan, g, nread, bi, ran,
                 fed, stderr, exit>>

\* Standard input is not a terminal: run it as one script.
RunAllStdin ==
  /\ pc = "runAll"
  /\ command = <<>>
  /\ StdinMode
  /\ \E text \in StdinScripts :
       LET x == run(NewRunner, text, "")
       IN /\ runners' = (0 :> x.r)
          /\ err' = x.err
          /\ stdout' = stdout \o Printed("stdin", 0, x.out)
          /\ hist' = hist \cup Events("stdin", 0, x.evs)
  /\ pc' = "main"
  /\ UNCHANGED <<config, i, j, k, errs, errChan, g, inter, stderr, exit>>

\* Otherwise: on to the loop over flag.Args().
RunAllArgs ==
  /\ pc = "runAll"
  /\ command = <<>>
  /\ ~StdinMode
  /\ runners' = (0 :> NewRunner)
  /\ pc' = LoopPc(i, j)
  /\ UNCHANGED <<config, err, i, j, k, errs, errChan, g, inter, stdout,
                 stderr, exit, hist>>

\* The loop over flag.Args() without its return: a failure is kept and the
\* next script is run.
RunSeqPath_KeepsGoing ==
  /\ pc = "seq"
  /\ i <= Len(args)
  /\ LET x == runPath(runners[0], args[i])
     IN /\ runners' = [runners EXCEPT ![0] = x.r]
        /\ stdout' = stdout \o Printed("arg", i, x.out)
        /\ hist' = hist \cup Events("arg", i, x.evs)
        /\ err' = IF x.err # Nil THEN x.err ELSE err
        /\ i' = i + 1
        /\ pc' = IF i + 1 > Len(args) /\ (x.err # Nil \/ err # Nil)
                   THEN "main" ELSE LoopPc(i + 1, j)
  /\ UNCHANGED <<config, j, k, errs, errChan, g, inter, stderr, exit>>

\* One turn of the loop over flag.Args(): the first failure is returned.
RunSeqPath ==
  /\ pc = "seq"
  /\ i <= Len(args)
  /\ LET x == runPath(runners[0], args[i])
     IN /\ runners' = [runners EXCEPT ![0] = x.r]
        /\ stdout' = stdout \o Printed("arg", i, x.out)
        /\ hist' = hist \cup Events("arg", i, x.evs)
        /\ IF x.err # Nil
             THEN /\ err' = x.err
                  /\ pc' = "main"
                  /\ i' = i
             ELSE /\ err' = err
                  /\ i' = i + 1
                  /\ pc' = LoopPc(i + 1, j)
  /\ UNCHANGED <<config, j, k, errs, errChan, g, inter, stderr, exit>>

\* One turn of the launch loop: go func(p string){...}(arg).
Launch ==
  /\ pc = "launch"
  /\ j <= Len(concArgs)
  /\ g' = [g EXCEPT ![j] = [@ EXCEPT !.pc = "start"]]
  /\ j' = j + 1
  /\ pc' = LoopPc(i, j + 1)
  /\ hist' = hist \cup Events("conc", j, {"launch"})
  /\ UNCHANGED <<config, err, i, k, errs, errChan, runners, inter, stdout,
                 stderr, exit>>

\* main.go: errs.Add(<-errChan), once per unit.
Receive ==
  /\ build = "main.go"
  /\ pc = "collect"
  /\ k <= Len(concArgs)
  /\ errChan # <<>>
  /\ errs' = Add(errs, Head(errChan))
  /\ errChan' = Tail(errChan)
  /\ k' = k + 1
  /\ UNCHANGED <<config, pc, err, i, j, runners, g, inter, stdout, stderr,
                 exit, hist>>

\* main.go: after the loop, return errs.GetError().
CollectReturn ==
  /\ build = "main.go"
  /\ pc = "collect"
  /\ k > Len(concArgs)
  /\ err' = GetError(errs)
  /\ pc' = "main"
  /\ UNCHANGED <<config, i, j, k, errs, errChan, runners, g, inter, stdout,
                 stderr, exit, hist>>

\* part_000: if err = <-errChan; err != nil { return err }.
ReceiveAsync ==
  /\ build = "part_000"
  /\ pc = "collect"
  /\ k <= Len(concArgs)
  /\ errChan # <<>>
  /\ errChan' = Tail(errChan)
  /\ IF Head(errChan) # Nil
       THEN /\ err' = Head(errChan)
            /\ pc' = "main"
            /\ k' = k
       ELSE /\ err' = Nil
            /\ pc' = pc
            /\ k' = k + 1
  /\ UNCHANGED <<config, i, j, errs, runners, g, inter, stdout, stderr,
                 exit, hist>>

\* part_000: after the loop, return nil.
AsyncReturn ==
  /\ build = "part_000"
  /\ pc = "collect"
  /\ k > Len(concArgs)
  /\ err' = Nil
  /\ pc' = "main"
  /\ UNCHANGED <<config, i, j, k, errs, errChan, runners, g, inter, stdout,
                 stderr, exit, hist>>

\* -------------------------------------------------------------------- main
\* main without the interp.ExitStatus case.
ExitCode_NoExitStatus(e) == IF e # Nil THEN 1 ELSE 0

\* The exit code main gives for the error runAll returned.
ExitCode(e) ==
  IF e.type = "ExitStatus" THEN e.code
  ELSE IF e # Nil THEN 1 ELSE 0

\* main without its fmt.Fprintln(os.Stderr, err).
Report_Silent(e) == <<>>

\* What main writes to standard error for it (fmt.Fprintln).
Report(e) ==
  IF e.type # "ExitStatus" /\ e # Nil THEN <<e.text \o <<"\n">>>> ELSE <<>>

Main ==
  /\ pc = "main"
  /\ exit' = [done |-> TRUE, code |-> ExitCode(err)]
  /\ stderr' = stderr \o Report(err)
  /\ pc' = "exited"
  /\ UNCHANGED <<config, err, i, j, k, errs, errChan, runners, g, inter,
                 stdout, hist>>

\* -------------------------------------------------------- concurrent units
\* Every goroutine dies with the process.
Alive == pc # "exited"

\* The runner unit u works on: its own concRunner in main.go, the shared r
\* in part_000.
RunnerOf(u) == IF build = "main.go" THEN u ELSE 0

\* runPath up to the end of parsing: nothing of it touches the runner.
Opened(u, gu, rid) ==
  LET path == concArgs[u]
      p    == IF path \in DOMAIN FileContent
                THEN Parse(FileContent[path], path)
                ELSE [err |-> PathError(path), prog |-> <<>>]
  IN /\ g' = [g EXCEPT ![u] =
                IF p.err # Nil
                  THEN [gu EXCEPT !.pc = "send", !.rid = rid, !.res = p.err]
                  ELSE [gu EXCEPT !.pc = "reset", !.rid = rid, !.prog = p.prog]]
     /\ hist' = hist \cup Events("conc", u,
                  IF path \in DOMAIN FileContent THEN {"open", "parse"} ELSE {"open"})

\* main.go: the unit makes its own runner (or fails to and reports that),
\* then starts runPath on it.
GoStartConc(u) ==
  /\ Alive
  /\ build = "main.go"
  /\ g[u].pc = "start"
  /\ \/ /\ g' = [g EXCEPT ![u] = [@ EXCEPT !.pc = "send", !.res = NewError]]
        /\ UNCHANGED <<runners, hist>>
     \/ /\ runners' = runners @@ (u :> NewRunner)
        /\ Opened(u, g[u], RunnerOf(u))
  /\ UNCHANGED <<config, pc, err, i, j, k, errs, errChan, inter, stdout,
                 stderr, exit>>

\* part_000: the unit starts runPath on the runner of the sequential phase.
GoStartAsync(u) ==
  /\ Alive
  /\ build = "part_000"
  /\ g[u].pc = "start"
  /\ Opened(u, g[u], RunnerOf(u))
  /\ UNCHANGED <<config, pc, err, i, j, k, errs, errChan, runners, inter,
                 stdout, stderr, exit>>

\* run, after a successful parse: r.Reset().
GoReset(u) ==
  /\ Alive
  /\ g[u].pc = "reset"
  /\ runners' = [runners EXCEPT ![g[u].rid] = Reset(@)]
  /\ g' = [g EXCEPT ![u] = [@ EXCEPT !.pc = "run"]]
  /\ hist' = hist \cup Events("conc", u, {"reset"})
  /\ UNCHANGED <<config, pc, err, i, j, k, errs, errChan, inter, stdout,
                 stderr, exit>>

\* run: r.Run(ctx, prog).
GoRun(u) ==
  /\ Alive
  /\ g[u].pc = "run"
  /\ LET x == RunNode(runners[g[u].rid], g[u].prog)
     IN /\ runners' = [runners EXCEPT ![g[u].rid] = x.r]
        /\ stdout' = stdout \o Printed("conc", u, x.out)
        /\ g' = [g EXCEPT ![u] = [@ EXCEPT !.pc = "send", !.res = x.err]]
  /\ hist' = hist \cup Events("conc", u, {"run"})
  /\ UNCHANGED <<config, pc, err, i, j, k, errs, errChan, inter, stderr, exit>>

\* errChan <- result: blocks while the buffer is full.
GoSend(u) ==
  /\ Alive
  /\ g[u].pc = "send"
  /\ Len(errChan) < Len(concArgs)
  /\ errChan' = Append(errChan, g[u].res)
  /\ g' = [g EXCEPT ![u] = [@ EXCEPT !.pc = "done"]]
  /\ UNCHANGED <<config, pc, err, i, j, k, errs, runners, inter, stdout,
                 stderr, exit, hist>>

\* ---------------------------------------------------------- runInteractive
Incomplete == parser.partial # <<>>

Prompt(text) == [who |-> "prompt", idx |-> 0, text |-> <<text>>]

\* parser.Interactive reads one more line and calls fn at its end: with the
\* statements accumulated so far when the line completes them or leaves one
\* open, with none when nothing was parsed.
ReadLine ==
  /\ pc = "read"
  /\ nread < MaxLines
  /\ \E line \in Lines :
       /\ parser' = Lex(parser, line)
       /\ fed' = Append(fed, line)
  /\ nread' = nread + 1
  /\ bi' = 1
  /\ pc' = "fn"
  /\ UNCHANGED <<config, err, i, j, k, errs, errChan, runners, g, runErr,
                 ran, stdout, stderr, exit, hist>>

\* fn: the parser is incomplete: write the continuation prompt, run nothing.
FnIncomplete ==
  /\ pc = "fn"
  /\ Incomplete
  /\ stdout' = Append(stdout, Prompt("> "))
  /\ pc' = "read"
  /\ UNCHANGED <<config, err, i, j, k, errs, errChan, runners, g, inter,
                 stderr, exit, hist>>

\* fn without the parser.Incomplete() check: the statements accumulated are
\* run at the end of every line.
FnRunStmt_NoIncompleteCheck ==
  /\ pc = "fn"
  /\ bi <= Len(parser.stmts)
  /\ LET x == RunNode(runners[0], <<parser.stmts[bi]>>)
     IN /\ runners' = [runners EXCEPT ![0] = x.r]
        /\ runErr' = x.err
        /\ stdout' = stdout \o Printed("stmt", nread, x.out)
        /\ IF x.r.exited
             THEN /\ pc' = "main"
                  /\ err' = x.err
                  /\ bi' = bi
             ELSE /\ pc' = pc
                  /\ err' = err
                  /\ bi' = bi + 1
  /\ ran' = Append(ran, [line |-> nread, n |-> bi, stmt |-> parser.stmts[bi]])
  /\ UNCHANGED <<config, i, j, k, errs, errChan, g, parser, nread, fed,
                 stderr, exit, hist>>

\* fn without the r.Exited() check: the loop over stmts goes on.
FnRunStmt_IgnoresExited ==
  /\ pc = "fn"
  /\ ~Incomplete
  /\ bi <= Len(parser.stmts)
  /\ LET x == RunNode(runners[0], <<parser.stmts[bi]>>)
     IN /\ runners' = [runners EXCEPT ![0] = x.r]
        /\ runErr' = x.err
        /\ stdout' = stdout \o Printed("stmt", nread, x.out)
  /\ bi' = bi + 1
  /\ ran' = Append(ran, [line |-> nread, n |-> bi, stmt |-> parser.stmts[bi]])
  /\ UNCHANGED <<config, pc, err, i, j, k, errs, errChan, g, parser, nread,
                 fed, stderr, exit, hist>>

\* fn with a runErr that keeps the first failure instead of the last result.
FnRunStmt_KeepsFirstError ==
  /\ pc = "fn"
  /\ ~Incomplete
  /\ bi <= Len(parser.stmts)
  /\ LET x == RunNode(runners[0], <<parser.stmts[bi]>>)
         e == IF runErr # Nil THEN runErr ELSE x.err
     IN /\ runners' = [runners EXCEPT ![0] = x.r]
        /\ runErr' = e
        /\ stdout' = stdout \o Printed("stmt", nread, x.out)
        /\ IF x.r.exited
             THEN /\ pc' = "main"
                  /\ err' = e
                  /\ bi' = bi
             ELSE /\ pc' = pc
                  /\ err' = err
                  /\ bi' = bi + 1
  /\ ran' = Append(ran, [line |-> nread, n |-> bi, stmt |-> parser.stmts[bi]])
  /\ UNCHANGED <<config, i, j, k, errs, errChan, g, parser, nread, fed,
                 stderr, exit, hist>>

\* fn with an r.Reset() before each r.Run, as run has.
FnRunStmt_Resets ==
  /\ pc = "fn"
  /\ ~Incomplete
  /\ bi <= Len(parser.stmts)
  /\ LET x == RunNode(Reset(runners[0]), <<parser.stmts[bi]>>)
     IN /\ runners' = [runners EXCEPT ![0] = x.r]
        /\ runErr' = x.err
        /\ stdout' = stdout \o Printed("stmt", nread, x.out)
        /\ IF x.r.exited
             THEN /\ pc' = "main"
                  /\ err' = x.err
                  /\ bi' = bi
             ELSE /\ pc' = pc
                  /\ err' = err
                  /\ bi' = bi + 1
  /\ ran' = Append(ran, [line |-> nread, n |-> bi, stmt |-> parser.stmts[bi]])
  /\ UNCHANGED <<config, i, j, k, errs, errChan, g, parser, nread, fed,
                 stderr, exit, hist>>

\* fn: one turn of the loop over stmts; fn returns false once the
\* interpreter exited, which ends parser.Interactive without an error.
FnRunStmt ==
  /\ pc = "fn"
  /\ ~Incomplete
  /\ bi <= Len(parser.stmts)
  /\ LET x == RunNode(runners[0], <<parser.stmts[bi]>>)
     IN /\ runners' = [runners EXCEPT ![0] = x.r]
        /\ runErr' = x.err
        /\ stdout' = stdout \o Printed("stmt", nread, x.out)
        /\ IF x.r.exited
             THEN /\ pc' = "main"
                  /\ err' = x.err
                  /\ bi' = bi
             ELSE /\ pc' = pc
                  /\ err' = err
                  /\ bi' = bi + 1
  /\ ran' = Append(ran, [line |-> nread, n |-> bi, stmt |-> parser.stmts[bi]])
  /\ UNCHANGED <<config, i, j, k, errs, errChan, g, parser, nread, fed,
                 stderr, exit, hist>>

\* fn without the prompt that follows the loop over stmts.
FnPrompt_Silent ==
  /\ pc = "fn"
  /\ ~Incomplete
  /\ bi > Len(parser.stmts)
  /\ parser' = [parser EXCEPT !.stmts = <<>>]
  /\ pc' = "read"
  /\ UNCHANGED <<config, err, i, j, k, errs, errChan, runners, g, nread, bi,
                 runErr, ran, fed, stdout, stderr, exit, hist>>

\* fn: the batch is done: write the primary prompt; the driver then drops
\* the accumulated statements.
FnPrompt ==
  /\ pc = "fn"
  /\ ~Incomplete
  /\ bi > Len(parser.stmts)
  /\ stdout' = Append(stdout, Prompt("$ "))
  /\ parser' = [parser EXCEPT !.stmts = <<>>]
  /\ pc' = "read"
  /\ UNCHANGED <<config, err, i, j, k, errs, errChan, runners, g, nread, bi,
                 runErr, ran, fed, stderr, exit, hist>>

\* The input ends: parser.Interactive returns nil, or the parse error of a
\* statement left open; runInteractive returns that error, or runErr.
ReadEOF ==
  /\ pc = "read"
  /\ err' = IF Incomplete THEN ParseError("") ELSE runErr
  /\ hist' = hist \cup Events("interactive", 0, {"eof"})
  /\ pc' = "main"
  /\ UNCHANGED <<config, i, j, k, errs, errChan, runners, g, inter, stdout,
                 stderr, exit>>

\* Reading fails: parser.Interactive returns the read error.
ReadFails ==
  /\ pc = "read"
  /\ err' = ReadError
  /\ hist' = hist \cup Events("interactive", 0, {"readerr"})
  /\ pc' = "main"
  /\ UNCHANGED <<config, i, j, k, errs, errChan, runners, g, inter, stdout,
                 stderr, exit>>

\* ----------------------------------------------------------- specification
Next ==
  \/ RunAllNewFails
  \/ RunAllCommand
  \/ RunAllInteractive
  \/ RunAllStdin
  \/ RunAllArgs
  \/ RunSeqPath
  \/ Launch
  \/ Receive
  \/ CollectReturn
  \/ ReceiveAsync
  \/ AsyncReturn
  \/ Main
  \/ \E u \in Units : GoStartConc(u)
  \/ \E u \in Units : GoStartAsync(u)
  \/ \E u \in Units : GoReset(u)
  \/ \E u \in Units : GoRun(u)
  \/ \E u \in Units : GoSend(u)
  \/ ReadLine
  \/ FnIncomplete
  \/ FnRunStmt
  \/ FnPrompt
  \/ ReadEOF
  \/ ReadFails

Spec == Init /\ [][Next]_vars

\* ------------------------------------------------------------------ claims
\* What each file gives when run on a session of its own.
Outcome(path) ==
  CASE path = "echoset" -> Nil
    [] path = "exit3"   -> ExitStatus(3)
    [] path = "bad"     -> ParseError("bad")
    [] path = "missing" -> PathError("missing")

Returned == pc \in {"main", "exited"}
ArgEvent(n, ev) == [who |-> "arg", idx |-> n, ev |-> ev] \in hist

\* runAll returned out of the receive loop of the concurrent phase.
ConcReturned == Returned /\ concArgs # <<>> /\ j > Len(concArgs)

\* C1: when positional script n was attempted and failed, every script
\* before it succeeded, no script after it was opened, parsed or run, no
\* concurrent unit was launched, and runAll returned exactly its failure.
C1_SequentialFailFast ==
  \A n \in 1..Len(args) :
    (ArgEvent(n, "open") /\ Outcome(args[n]) # Nil) =>
      /\ \A m \in 1..(n - 1) : Outcome(args[m]) = Nil /\ ArgEvent(m, "run")
      /\ \A e \in hist : e.who = "arg" => e.idx <= n
      /\ \A e \in hist : e.who # "conc"
      /\ \A u \in Units : g[u].pc = "idle"
      /\ errChan = <<>>
      /\ Returned
      /\ err = Outcome(args[n])

C1_Witness ==
  /\ pc = "exited"
  /\ Len(args) = 2 /\ args[1] = "echoset" /\ args[2] = "exit3"
  /\ concArgs # <<>>
  /\ ArgEvent(2, "run")
  /\ err = ExitStatus(3)

\* The newline-terminated entries of a text.
RECURSIVE Entries(_, _)
Entries(text, cur) ==
  IF text = <<>> THEN <<>>
  ELSE IF Head(text) = "\n"
         THEN <<cur>> \o Entries(Tail(text), <<>>)
         ELSE Entries(Tail(text), Append(cur, Head(text)))

Failing == {u \in Units : g[u].pc \in {"send", "done"} /\ g[u].res # Nil}

\* C2: when runAll returns out of the concurrent phase, it returns nil iff
\* every unit's outcome is nil; with the aggregator of main.go, a failure's
\* text holds exactly one newline-terminated entry per failing unit, the
\* text of that unit's error, and HasError agrees with GetError.
C2_ConcurrentAggregation ==
  /\ ConcReturned =>
       /\ (err = Nil) =>
            \A u \in Units : g[u].pc = "done" /\ g[u].res = Nil
       /\ (err # Nil) => Failing # {}
       /\ (build = "main.go" /\ err # Nil) =>
            LET ents == Entries(err.text, <<>>)
            IN /\ Len(ents) = Cardinality(Failing)
               /\ err.text # <<>> /\ err.text[Len(err.text)] = "\n"
               /\ \A u \in Failing :
                    Cardinality({n \in 1..Len(ents) : ents[n] = g[u].res.text})
                      = Cardinality({v \in Failing : g[v].res.text = g[u].res.text})
  /\ HasError(errs) <=> (GetError(errs) # Nil)
  /\ HasError(errs) <=> (\E n \in 1..Len(errs) : errs[n] # Nil)

C2_Witness ==
  /\ build = "main.go"
  /\ pc = "exited"
  /\ Len(concArgs) = 2
  /\ Cardinality(Failing) = 2
  /\ Len(Entries(err.text, <<>>)) = 2
  /\ HasError(errs)

\* C3: runAll returns out of the concurrent phase only after it received a
\* result from every launched unit, failures or not, and every unit has run
\* to completion by then.
C3_NeverReturnsEarly ==
  ConcReturned =>
    /\ errChan = <<>>
    /\ \A u \in Units : g[u].pc = "done"

\* A unit is on its session from the call of Reset to the return of Run.
InUse(u) == g[u].pc \in {"reset", "run"}

\* C4: no two units are on the same session at once, no unit is on the
\* sequential session, and no unit prints a value of X that a sibling
\* assigned.
C4_ConcurrentIsolation ==
  /\ \A u, v \in Units : (u # v /\ InUse(u) /\ InUse(v)) => g[u].rid # g[v].rid
  /\ \A u \in Units : InUse(u) => g[u].rid # 0
  /\ \A n \in 1..Len(stdout) : stdout[n].who = "conc" => stdout[n].text # <<"1">>

\* C5: the process exits with the exit status runAll returned, with 1 for
\* any other failure, with 0 for success; -c "exit 7" exits with 7 and
\* writes nothing to standard error.
C5_ExitCodeMapping ==
  exit.done =>
    /\ (err.type = "ExitStatus") => exit.code = err.code
    /\ (err.type \notin {"ExitStatus", "nil"}) => exit.code = 1
    /\ (err.type = "nil") => exit.code = 0
    /\ (command = <<"exit 7">> /\ err # NewError) =>
         exit.code = 7 /\ stderr = <<>>

C5_Witness ==
  /\ exit.done
  /\ command = <<"exit 7">>
  /\ exit.code = 7
  /\ [who |-> "cmd", idx |-> 0, ev |-> "run"] \in hist

\* C6: when runAll returns a failure out of the concurrent phase, the
\* process exits with 1, whatever exit status a unit asked for.
C6_ConcurrentFailureIsGeneric ==
  (exit.done /\ ConcReturned /\ Failing # {}) => exit.code = 1

\* What each inline command gives.
CommandOutcome(c) == IF c = <<"exit 7">> THEN ExitStatus(7) ELSE Nil

\* C7: with a non-empty -c, runAll runs that script alone, on the sequential
\* session, and returns its outcome: no positional script is opened, no unit
\* is launched, standard input is neither run nor read interactively.
C7_InlineCommandPrecedence ==
  command # <<>> =>
    /\ \A e \in hist : e.who = "cmd"
    /\ \A n \in 1..Len(stdout) : stdout[n].who = "cmd"
    /\ \A u \in Units : g[u].pc = "idle"
    /\ errChan = <<>>
    /\ pc \in {"runAll", "main", "exited"}
    /\ nread = 0 /\ ran = <<>>
    /\ Returned =>
         \/ err = NewError /\ hist = {}
         \/ /\ err = CommandOutcome(command)
            /\ hist = Events("cmd", 0, {"parse", "reset", "run"})
            /\ DOMAIN runners = {0}

C7_Witness ==
  /\ command = <<"exit 7">>
  /\ args # <<>> /\ concArgs # <<>>
  /\ pc = "exited"
  /\ [who |-> "cmd", idx |-> 0, ev |-> "run"] \in hist
  /\ exit.code = 7

StdinUsed == \E e \in hist : e.who \in {"stdin", "interactive"}

\* C8: with an empty -c, runAll reads standard input (as a script or
\* interactively) iff there is no positional and no -a argument; with -a
\* arguments alone it launches them and leaves standard input alone.
C8_StdinModeSelection ==
  (command = <<>> /\ pc # "runAll" /\ runners # <<>>) =>
    /\ StdinUsed <=> (args = <<>> /\ concArgs = <<>>)
    /\ (args = <<>> /\ concArgs # <<>>) => pc \in {"launch", "collect", "main", "exited"}

PriorAssigned(idx) == \E m \in 1..(idx - 1) : args[m] = "echoset" /\ ArgEvent(m, "run")

\* C9 as stated: a positional script run after one that assigned X=1 echoes 1.
C9_SeesPriorVariable ==
  \A n \in 1..Len(stdout) :
    (stdout[n].who = "arg" /\ PriorAssigned(stdout[n].idx)) => stdout[n].text = <<"1">>

\* C9 as amended: run resets the session before each script, so a positional
\* script run after one that assigned X=1 echoes the empty value of X.
C9_ResetHidesPriorVariable ==
  \A n \in 1..Len(stdout) :
    (stdout[n].who = "arg" /\ PriorAssigned(stdout[n].idx)) => stdout[n].text = <<"">>

C9_Witness ==
  /\ pc = "exited"
  /\ args = <<"echoset", "echoset">>
  /\ \E n \in 1..Len(stdout) : stdout[n].who = "arg" /\ stdout[n].idx = 2
  /\ err = Nil

RECURSIVE Flatten(_)
Flatten(ls) == IF ls = <<>> THEN <<>> ELSE Head(ls) \o Flatten(Tail(ls))

\* The statements the lines read so far complete.
Completed == Lex(LexInit, Flatten(fed)).stmts

LastWritten(text) == stdout # <<>> /\ stdout[Len(stdout)] = Prompt(text)

\* What C10 asks of every state: the statements run are, in order and once
\* each, the first of the statements completed so far; when the loop waits
\* for input after a line, an open statement left "> " as the last write and
\* nothing of that line run, a completed batch left every statement run and
\* "$ " as the last write.
C10_State ==
  /\ Len(ran) <= Len(Completed)
  /\ \A n \in 1..Len(ran) : ran[n].stmt = Completed[n]
  /\ (pc = "read" /\ nread > 0 /\ Incomplete) =>
       /\ LastWritten("> ")
       /\ \A n \in 1..Len(ran) : ran[n].line < nread
  /\ (pc = "read" /\ nread > 0 /\ ~Incomplete) =>
       /\ LastWritten("$ ")
       /\ Len(ran) = Len(Completed)

\* What C10 asks of every step: no statement is run while the parser is
\* incomplete, and the callback of an incomplete parser writes "> " and
\* runs nothing.
C10_Step ==
  /\ (ran' # ran) => ~Incomplete
  /\ (pc = "fn" /\ Incomplete /\ pc' # "fn") =>
       stdout' = Append(stdout, Prompt("> ")) /\ ran' = ran /\ runners' = runners

\* C10: an incomplete input gets the continuation prompt and no execution;
\* once completed, every statement of the batch is run exactly once, in
\* order, and then the primary prompt is written.
C10_IncompleteNeverRuns == [](C10_State) /\ [][C10_Step]_vars

C10_Witness ==
  /\ pc = "read"
  /\ nread = 2
  /\ fed = << <<"false", "echo 'a">>, <<"b'">> >>
  /\ Len(ran) = 2
  /\ ran[2].stmt = <<"echo 'a", "b'">>
  /\ stdout[2] = Prompt("> ")
  /\ LastWritten("$ ")

\* C11 as stated: whenever the process exits with a non-zero or requested
\* code, standard error holds the message of the failure runAll returned.
C11_EveryFailureOnStderr ==
  (exit.done /\ err # Nil) => stderr = <<err.text \o <<"\n">>>>

\* C11 as amended: a failure that is not an exit status is written to
\* standard error, once and alone, before the process exits with 1; for an
\* exit status and for success main writes nothing; nothing is written
\* before main is reached.
C11_OrdinaryFailureOnStderr ==
  /\ (exit.done /\ err.type \notin {"ExitStatus", "nil"}) =>
       stderr = <<err.text \o <<"\n">>>> /\ exit.code = 1
  /\ (exit.done /\ err.type \in {"ExitStatus", "nil"}) => stderr = <<>>
  /\ ~exit.done => stderr = <<>>

C11_Witness ==
  /\ exit.done
  /\ args = <<"echoset", "missing">>
  /\ ArgEvent(2, "open")
  /\ stderr = <<PathError("missing").text \o <<"\n">>>>
  /\ exit.code = 1

\* runAll went into runInteractive.
InInteractive == [who |-> "interactive", idx |-> 0, ev |-> "enter"] \in hist

\* runInteractive's loop ended because the interpreter exited.
EndedByExit == InInteractive /\ runners[0].exited

\* The prompts written, in order.
Prompts == SelectSeq(stdout, LAMBDA e : e.who = "prompt")

\* The callbacks that returned true so far.
Continued == IF pc = "fn" \/ EndedByExit THEN nread - 1 ELSE nread

\* Whether the first n lines read leave a statement open.
OpenAfter(n) == Lex(LexInit, Flatten(SubSeq(fed, 1, n))).partial # <<>>

\* C12: outside runInteractive no prompt is written and no line is read; in
\* it the first write is "$ ", alone on standard output until a line is
\* read; the callback of line n, unless it ended the loop, wrote exactly one
\* prompt, "> " if the lines up to n leave a statement open and "$ "
\* otherwise, after everything the statements it ran printed; a batch in
\* which the interpreter exited is followed by no prompt.
C12_PromptSequence ==
  /\ ~InInteractive => Prompts = <<>> /\ nread = 0
  /\ InInteractive =>
       /\ stdout[1] = Prompt("$ ")
       /\ nread = 0 => stdout = <<Prompt("$ ")>>
       /\ Len(Prompts) = 1 + Continued
       /\ \A n \in 1..Continued :
            Prompts[n + 1] = Prompt(IF OpenAfter(n) THEN "> " ELSE "$ ")
       /\ \A n \in 1..Len(stdout) :
            stdout[n].who = "stmt" =>
              Len(SelectSeq(SubSeq(stdout, 1, n), LAMBDA e : e.who = "prompt"))
                = stdout[n].idx
       /\ EndedByExit => Returned /\ Len(Prompts) = nread

C12_Witness ==
  /\ pc = "exited"
  /\ fed = << <<"false", "echo 'a">>, <<"b'">> >>
  /\ Prompts = <<Prompt("$ "), Prompt("> "), Prompt("$ ")>>
  /\ \E n \in 1..Len(stdout) : stdout[n].who = "stmt"
  /\ ~EndedByExit

\* The results runAll has taken from errChan, in order: main.go keeps them in
\* errs; part_000 keeps none, but took k - 1 nils and then, if it returned a
\* failure, that failure.
Recv ==
  IF build = "main.go" THEN errs
  ELSE [n \in 1..(k - 1) |-> Nil]
         \o (IF ConcReturned /\ err # Nil THEN <<err>> ELSE <<>>)

\* How many times v occurs in sequence q.
Count(q, v) == Cardinality({n \in 1..Len(q) : q[n] = v})

Succeeded(n) == ArgEvent(n, "run") /\ Outcome(args[n]) = Nil

\* C14: a positional script is opened only after every script listed before
\* it was run and returned success, and what the scripts print comes in
\* listed order; a unit is launched only after every positional script was
\* run and returned success; while the sequential loop runs no unit exists,
\* and a unit that is running is not on the sequential session.
C14_PhaseOrdering ==
  /\ \A n \in 1..Len(args) :
       ArgEvent(n, "open") => \A m \in 1..(n - 1) : Succeeded(m)
  /\ \A m, n \in 1..Len(stdout) :
       (m < n /\ stdout[m].who = "arg" /\ stdout[n].who = "arg") =>
         stdout[m].idx <= stdout[n].idx
  /\ \A m, n \in 1..Len(stdout) :
       (stdout[m].who = "arg" /\ stdout[n].who = "conc") => m < n
  /\ \A u \in Units :
       g[u].pc # "idle" => \A n \in 1..Len(args) : Succeeded(n)
  /\ pc = "seq" => \A u \in Units : g[u].pc = "idle"
  /\ \A u \in Units : InUse(u) => g[u].rid # 0

\* The file at path exists and parses.
ParseOK(path) ==
  path \in DOMAIN FileContent /\ Parse(FileContent[path], path).err = Nil

\* What C15 asks of every state: a script was reset or run only if it
\* parsed, and run only after its reset; a unit whose file does not parse
\* reports the parse error; a standard input that does not parse leaves the
\* session as interp.New made it and is the outcome.
C15_State ==
  /\ \A e \in hist :
       (e.who \in {"arg", "conc"} /\ e.ev \in {"reset", "run"}) =>
         ParseOK(IF e.who = "arg" THEN args[e.idx] ELSE concArgs[e.idx])
  /\ \A e \in hist :
       e.ev = "run" => [e EXCEPT !.ev = "reset"] \in hist /\ [e EXCEPT !.ev = "parse"] \in hist
  /\ \A u \in Units :
       (g[u].pc \in {"send", "done"} /\ g[u].res # NewError
          /\ concArgs[u] \in DOMAIN FileContent /\ ~ParseOK(concArgs[u])) =>
         g[u].res = ParseError(concArgs[u])
  /\ ([who |-> "stdin", idx |-> 0, ev |-> "parse"] \in hist
        /\ [who |-> "stdin", idx |-> 0, ev |-> "run"] \notin hist) =>
       runners[0] = NewRunner /\ err = ParseError("")

\* What C15 asks of every step: the turn of the sequential loop on a file
\* that does not parse leaves the session and standard output as they were
\* and returns the parse error; on a file that parses it leaves the session
\* as a run on a reset session leaves it; the step of a unit that finds a
\* parse error leaves every session as it was (the unit's own as interp.New
\* made it).
C15_Step ==
  /\ (pc = "seq" /\ i <= Len(args) /\ args[i] \in DOMAIN FileContent
        /\ ~ParseOK(args[i])) =>
       /\ runners' = runners
       /\ stdout' = stdout
       /\ err' = ParseError(args[i])
       /\ pc' = "main"
  /\ (pc = "seq" /\ i <= Len(args) /\ ParseOK(args[i])) =>
       runners'[0] = RunNode(Reset(NewRunner), Parse(FileContent[args[i]], args[i]).prog).r
  /\ \A u \in Units :
       (g[u].pc = "start" /\ g'[u].pc = "send" /\ g'[u].res.type = "ParseError") =>
         /\ \A id \in DOMAIN runners : runners'[id] = runners[id]
         /\ \A id \in DOMAIN runners' \ DOMAIN runners : runners'[id] = NewRunner
         /\ stdout' = stdout

\* C15: a source that does not parse is never reset nor run, its parse error
\* is the outcome and the session is what it was; reset and execution come
\* only after a successful parse, the reset first.
C15_ParseFailureTouchesNothing == [](C15_State) /\ [][C15_Step]_vars

C15_Witness ==
  /\ pc = "exited"
  /\ args = <<"echoset", "bad">>
  /\ ArgEvent(2, "parse") /\ ~ArgEvent(2, "reset")
  /\ runners[0].X = "1"
  /\ err = ParseError("bad")

\* The statement makes the interpreter exit.
IsExit(stmt) == Head(stmt) \in DOMAIN ExitCodeOf \ {"false"}

LastRanExit == ran # <<>> /\ IsExit(ran[Len(ran)].stmt)

\* What C16 asks of every state: no statement was run after one that made
\* the interpreter exit; once such a statement was run, the loop has ended,
\* the line that held it is the last line read, and the prompts are those
\* written before its batch.
C16_State ==
  /\ \A n \in 1..(Len(ran) - 1) : ~IsExit(ran[n].stmt)
  /\ LastRanExit =>
       /\ EndedByExit
       /\ Returned
       /\ nread = ran[Len(ran)].line /\ Len(fed) = nread
       /\ Len(Prompts) = nread
  /\ EndedByExit => LastRanExit

\* What C16 asks of every step: once the interpreter exited, nothing is run,
\* read or written to standard output any more.
C16_Step ==
  EndedByExit =>
    /\ ran' = ran /\ fed' = fed /\ nread' = nread
    /\ stdout' = stdout
    /\ runners' = runners
    /\ pc' \in {"main", "exited"}

\* C16: after the statement on which the interpreter exited, no statement of
\* the batch or of a later line is run, no line is read, no prompt is
\* written, and the loop has ended for good.
C16_InteractiveExitIsTerminal == [](C16_State) /\ [][C16_Step]_vars

C16_Witness ==
  /\ pc = "exited"
  /\ fed = << <<"X=1">>, <<"exit 3", "X=1">> >>
  /\ Len(ran) = 2 /\ ran[2].stmt = <<"exit 3">>
  /\ Len(Completed) = 3
  /\ EndedByExit
  /\ exit.code = 3

\* How runInteractive's loop ended, when not by exit.
EndedByEOF == [who |-> "interactive", idx |-> 0, ev |-> "eof"] \in hist
EndedByReadError == [who |-> "interactive", idx |-> 0, ev |-> "readerr"] \in hist

\* What Run returns for one statement.
StmtResult(stmt) ==
  IF Head(stmt) \in DOMAIN ExitCodeOf
    THEN ExitStatus(ExitCodeOf[Head(stmt)]) ELSE Nil

\* The result of the statement run last, success if none was run.
LastResult == IF ran = <<>> THEN Nil ELSE StmtResult(ran[Len(ran)].stmt)

\* C17 as stated: a loop ended by the end of input or by exit returns the
\* result of the statement run last; a loop ended by a read error returns
\* the read error.
C17_LastResultOrReadError ==
  /\ (Returned /\ (EndedByEOF \/ EndedByExit)) => err = LastResult
  /\ (Returned /\ EndedByReadError) => err = ReadError

\* C17 as amended: a loop ended by exit, or by the end of input with no
\* statement left open, returns the result of the statement run last; the
\* end of input inside an open statement returns the parse error that
\* parser.Interactive gives; a read error returns the read error.
C17_LastResultOrInteractiveError ==
  /\ (InInteractive /\ Returned) => (EndedByEOF \/ EndedByExit \/ EndedByReadError)
  /\ (Returned /\ (EndedByExit \/ (EndedByEOF /\ ~Incomplete))) => err = LastResult
  /\ (Returned /\ EndedByEOF /\ Incomplete) => err = ParseError("")
  /\ (Returned /\ EndedByReadError) => err = ReadError

C17_Witness ==
  /\ pc = "exited"
  /\ EndedByEOF /\ ~Incomplete
  /\ Len(ran) = 2
  /\ StmtResult(ran[1].stmt) = ExitStatus(1)
  /\ StmtResult(ran[2].stmt) = Nil
  /\ err = Nil /\ exit.code = 0

\* A statement run before the n-th one assigned X.
AssignedBefore(n) == \E m \in 1..(n - 1) : ran[m].stmt = <<"X=1">>

\* What the echo $X statements among the first n run must have printed, if
\* the session keeps X from the statement that assigned it on.
RECURSIVE EchoValues(_)
EchoValues(n) ==
  IF n = 0 THEN <<>>
  ELSE EchoValues(n - 1)
         \o (IF ran[n].stmt = <<"echo $X">>
               THEN << <<(IF AssignedBefore(n) THEN "1" ELSE "")>> >>
               ELSE <<>>)

\* What they printed.
Echoed ==
  LET es == SelectSeq(stdout, LAMBDA e : e.who = "stmt" /\ e.text \in {<<"">>, <<"1">>})
  IN [n \in 1..Len(es) |-> es[n].text]

\* C18: in the interactive loop X is set iff a statement run so far assigned
\* it, and every echo $X printed 1 iff a statement run before it, in the
\* same batch or an earlier one, assigned X.
C18_InteractiveAccumulates ==
  InInteractive =>
    /\ (runners[0].X = "1") <=> AssignedBefore(Len(ran) + 1)
    /\ Echoed = EchoValues(Len(ran))

C18_Witness ==
  /\ pc = "read"
  /\ fed = << <<"X=1">>, <<"echo $X">> >>
  /\ Len(ran) = 2
  /\ Echoed = << <<"1">> >>
  /\ runners[0].X = "1"

\* What positional script n printed.
ArgOutput(n) ==
  LET es == SelectSeq(stdout, LAMBDA e : e.who = "arg" /\ e.idx = n)
  IN [m \in 1..Len(es) |-> es[m].text]

\* Every state a session can be in.
Sessions ==
  [X : {"", "1"}, exit : {0} \cup {ExitCodeOf[t] : t \in DOMAIN ExitCodeOf},
   exited : BOOLEAN, didReset : BOOLEAN]

\* On a session in any state, running a script gives the outcome and the
\* output that the script gives on a new session, and running it once more
\* on the session it left gives them again.
RunForgetsTheSession ==
  \A r \in Sessions :
    /\ \A p \in Paths :
         LET a == runPath(r, p)
             b == runPath(a.r, p)
             f == runPath(NewRunner, p)
         IN /\ a.err = b.err /\ a.out = b.out
            /\ a.err = f.err /\ a.out = f.out
            /\ a.err = Outcome(p)
            /\ a.r \in Sessions
    /\ \A text \in StdinScripts \cup Commands :
         LET a == run(r, text, "")
             b == run(a.r, text, "")
             f == run(NewRunner, text, "")
         IN /\ a.err = b.err /\ a.out = b.out
            /\ a.err = f.err /\ a.out = f.out

\* C19: every session the program holds is in one of the states above,
\* whatever was run on it before, so a script run on it, once or twice,
\* gives what it gives on a new session; and every positional script that
\* was run printed what it prints on a new session.
C19_RunIdempotence ==
  /\ \A id \in DOMAIN runners : runners[id] \in Sessions
  /\ RunForgetsTheSession
  /\ \A n \in 1..Len(args) :
       ArgEvent(n, "run") => ArgOutput(n) = runPath(NewRunner, args[n]).out

C19_Witness ==
  /\ pc = "exited"
  /\ args = <<"echoset", "echoset">>
  /\ ArgOutput(1) = << <<"">> >>
  /\ ArgOutput(2) = ArgOutput(1)
  /\ runners[0].X = "1"

\* What unit u's script gives whatever the interleaving: its file's outcome,
\* unless the unit could not get a session.
Expected(u) ==
  IF g[u].pc \in {"send", "done"} /\ g[u].res = NewError
    THEN NewError ELSE Outcome(concArgs[u])

\* The failure messages an outcome holds, in order: the entries of a
\* composite, the text of any other failure.
Messages(e) ==
  IF e = Nil THEN <<>>
  ELSE IF e.type = "errorString" THEN Entries(e.text, <<>>) ELSE <<e.text>>

\* The failures among the results received, in the order received.
NonNil(q) == SelectSeq(q, LAMBDA e : e # Nil)

\* C20: when runAll returns out of the concurrent phase, it returns success
\* iff every unit's script succeeds, the messages of its outcome are, each
\* as many times, the messages of the units whose scripts fail, and they
\* stand in the order in which the failures were received.
C20_InterleavingIndependence ==
  ConcReturned =>
    /\ (err = Nil) <=> (\A u \in Units : Expected(u) = Nil)
    /\ \A u \in Units :
         Expected(u) # Nil =>
           Count(Messages(err), Expected(u).text)
             = Cardinality({v \in Units : Expected(v) = Expected(u)})
    /\ Len(Messages(err)) = Cardinality({u \in Units : Expected(u) # Nil})
    /\ Messages(err) = [n \in 1..Len(NonNil(Recv)) |-> NonNil(Recv)[n].text]

====
